---- MODULE Spec2Model ----
(***************************************************************************)
(* Model of main.py: a Telegram bot that takes a prompt from a user,       *)
(* submits it to an asynchronous image-generation service, polls the job   *)
(* and relays the result.                                                  *)
(*                                                                         *)
(* Each handler call is a coroutine held in a slot of `tasks`; its field   *)
(* pc is the source line it stands at.  A coroutine suspended at an await  *)
(* stands at a pc of AwaitPcs; every other step runs on the event loop     *)
(* without yielding (requests.post, requests.get and time.sleep are        *)
(* blocking calls).                                                        *)
(***************************************************************************)
EXTENDS Integers, Sequences, FiniteSets, TLC

VARIABLES env, proc, user_states, queue, tasks, arrived, presses, accepted, sincePress, posts

vars == <<env, proc, user_states, queue, tasks, arrived, presses, accepted, sincePress, posts>>

\* ---- bounds of the model ----
MaxQueue == 1
MaxEvents == 4
MaxTasks == 2

Users == {"u1", "u2"}
Slots == 1..MaxTasks

\* ---- values of the program ----
None == "<None>"
Missing == "<missing>"
WAITING == "waiting_for_prompt"
GENERATE == "generate_image"
MaxAttempts == 20
SleepSeconds == 5

TaskIds == {"T1", "T2"}
Prompts == {"cat"}
ButtonData == {GENERATE, "other"}

Updates ==
    [type : {"start"}, user : Users, data : {""}]
    \cup [type : {"button"}, user : Users, data : ButtonData]
    \cup [type : {"text"}, user : Users, data : Prompts]

\* responses of the job-creation call (status line and JSON body)
PostResponses ==
    {[http |-> "ok", task_id |-> id] : id \in TaskIds \cup {Missing}}
    \cup {[http |-> "error", task_id |-> id] : id \in {Missing, "T1"}}
    \cup {[http |-> "conn", task_id |-> Missing]}

ImageLists == {<< >>, <<"u">>, <<"http://x/img.png", "u">>, <<"">>}

\* responses of the task-status call
PollResponses ==
    {[http |-> "ok", task_status |-> s, has_images |-> FALSE, output_images |-> << >>] :
        s \in {"FAILED", "RUNNING", "PENDING", "CANCELED", Missing}}
    \cup {[http |-> "ok", task_status |-> "SUCCEED", has_images |-> TRUE, output_images |-> l] :
        l \in ImageLists}
    \cup {[http |-> "ok", task_status |-> "SUCCEED", has_images |-> FALSE, output_images |-> << >>]}
    \cup {[http |-> "error", task_status |-> s, has_images |-> TRUE, output_images |-> <<"u">>] :
        s \in {"SUCCEED", "RUNNING"}}
    \cup {[http |-> "conn", task_status |-> Missing, has_images |-> FALSE, output_images |-> << >>]}

NoPost == [http |-> "none", task_id |-> Missing]
NoPoll == [http |-> "none", task_status |-> Missing, has_images |-> FALSE, output_images |-> << >>]
NoRet == [kind |-> "none", value |-> None, exc |-> ""]

\* a free coroutine slot
FreeTask ==
    [pc |-> "free", user |-> "", data |-> "", accepted |-> FALSE,
     post |-> NoPost, task_id |-> Missing, i |-> 0,
     polls |-> 0, waits |-> 0, clock |-> 0, nonterm |-> 0, resp |-> NoPoll, polled |-> Missing,
     ret |-> NoRet, log |-> "", out |-> << >>, escaped |-> ""]

\* ---- scheduling ----
InactivePcs == {"free", "done"}
AwaitPcs == {"st_46", "bt_51", "bt_55", "hm_62", "hm_68", "hm_70", "hm_73", "hm_75"}
GenPcs == {"gen_post", "gen_for", "gen_sleep", "gen_get"}

\* what a coroutine standing at pc p keeps from running: "loop" (everything:
\* it holds the event loop), "dispatch" (only the start of the next update's
\* handler: the application awaits each handler before it takes the next
\* update) or "none"
Blocks_concurrent(p) == "none"

Blocks(p) ==
    IF p \in InactivePcs THEN "none"
    ELSE IF p \in AwaitPcs THEN "dispatch"
    ELSE "loop"

\* coroutine t may take its next step
MayStep(t) == \A o \in Slots \ {t} : Blocks(tasks[o].pc) # "loop"

\* the application may start the handler of the next update
CanDispatch ==
    /\ proc = "polling"
    /\ queue # << >>
    /\ \A o \in Slots : Blocks(tasks[o].pc) = "none"
    /\ \E o \in Slots : tasks[o].pc \in InactivePcs

FreeSlot == CHOOSE t \in Slots : tasks[t].pc \in InactivePcs /\
                \A o \in Slots : tasks[o].pc \in InactivePcs => t <= o

ghosts == <<arrived, presses, accepted, sincePress, posts>>

\* ---- start of the process ----
Init ==
    /\ env \in [api_key : BOOLEAN, token : BOOLEAN]
    /\ proc = "load"
    /\ user_states = [u \in {} |-> WAITING]
    /\ queue = << >>
    /\ tasks = [t \in Slots |-> FreeTask]
    /\ arrived = 0
    /\ presses = [u \in Users |-> 0]
    /\ accepted = [u \in Users |-> 0]
    /\ sincePress = [u \in Users |-> 0]
    /\ posts = [u \in Users |-> 0]

\* both "if not ..." tests of the module level code are passed
ConfigOk_keyonly(e) == e.api_key

ConfigOk(e) == e.api_key /\ e.token

\* module level code and main(): exit(1) when a key is absent, else the
\* handlers are registered and run_polling starts
Startup ==
    /\ proc = "load"
    /\ proc' = IF ConfigOk(env) THEN "polling" ELSE "exit_1"
    /\ UNCHANGED <<env, user_states, queue, tasks, ghosts>>

\* a user sends an update; Telegram keeps it until the bot takes it
Arrive(e) ==
    /\ proc = "polling"
    /\ Len(queue) < MaxQueue
    /\ arrived < MaxEvents
    /\ queue' = Append(queue, e)
    /\ arrived' = arrived + 1
    /\ UNCHANGED <<env, proc, user_states, tasks, presses, accepted, sincePress, posts>>

\* user_states[user_id] == "waiting_for_prompt", with the membership test
IsWaiting(us, u) == u \in DOMAIN us /\ us[u] = WAITING

\* user_states[u] = "waiting_for_prompt"
SetWaiting_toggle(us, u) ==
    [v \in (DOMAIN us \ {u}) \cup (IF u \in DOMAIN us THEN {} ELSE {u}) |-> WAITING]

SetWaiting(us, u) == [v \in DOMAIN us \cup {u} |-> IF v = u THEN WAITING ELSE us[v]]

\* del user_states[u]
DelState_keep(us, u) == us

DelState_clear(us, u) == [v \in {} |-> WAITING]

DelState(us, u) == [v \in DOMAIN us \ {u} |-> us[v]]

\* the first pc of the handler the application routes update e to, run up to
\* its first await
EntryPc_nogate(e, us) ==
    CASE e.type = "start" -> "st_46"
      [] e.type = "button" -> "bt_51"
      [] e.type = "text" -> "hm_62"

EntryPc(e, us) ==
    CASE e.type = "start" -> "st_46"
      [] e.type = "button" -> "bt_51"
      [] e.type = "text" -> IF IsWaiting(us, e.user) THEN "hm_62" ELSE "hm_75"

\* the message a handler is sending while it stands at an await
Sending(p) ==
    CASE p = "st_46" -> "greeting"
      [] p = "bt_51" -> "answer"
      [] p = "bt_55" -> "ask_prompt"
      [] p = "hm_62" -> "starting"
      [] p = "hm_68" -> "photo"
      [] p = "hm_70" -> "failure_text"
      [] p = "hm_73" -> "error_text"
      [] p = "hm_75" -> "press_first"

Dispatch ==
    /\ CanDispatch
    /\ LET e == Head(queue)
           t == FreeSlot
       IN /\ tasks' = [tasks EXCEPT ![t] =
                 [FreeTask EXCEPT !.pc = EntryPc(e, user_states), !.user = e.user, !.data = e.data]]
          /\ queue' = Tail(queue)
    /\ UNCHANGED <<env, proc, user_states, ghosts>>

\* the end of a handler call: normally, or with an exception that leaves it
Finish(tk, exc) ==
    [tk EXCEPT !.pc = "done", !.escaped = exc, !.data = "", !.accepted = FALSE, !.ret = NoRet,
               !.post = NoPost, !.task_id = Missing, !.i = 0, !.polls = 0, !.waits = 0,
               !.clock = 0, !.nonterm = 0, !.resp = NoPoll, !.polled = Missing, !.log = ""]

\* the sends a handler call has made, in order
Sent(tk) == [tk EXCEPT !.out = Append(@, Sending(tk.pc))]

\* start: await reply_text(greeting, keyboard)
StartReply(t, ok) ==
    /\ tasks[t].pc = "st_46"
    /\ MayStep(t)
    /\ tasks' = [tasks EXCEPT ![t] = Finish(Sent(@), IF ok THEN "" ELSE "TelegramError")]
    /\ UNCHANGED <<env, proc, user_states, queue, ghosts>>

\* button: await query.answer(), then the test of query.data and the store
ButtonAnswer(t, ok) ==
    /\ tasks[t].pc = "bt_51"
    /\ MayStep(t)
    /\ LET tk == Sent(tasks[t])
           u == tasks[t].user
       IN IF ~ok
          THEN /\ tasks' = [tasks EXCEPT ![t] = Finish(tk, "TelegramError")]
               /\ UNCHANGED <<user_states, presses, sincePress>>
          ELSE IF tk.data = GENERATE
          THEN /\ user_states' = SetWaiting(user_states, u)
               /\ presses' = [presses EXCEPT ![u] = @ + 1]
               /\ sincePress' = [sincePress EXCEPT ![u] = 0]
               /\ tasks' = [tasks EXCEPT ![t] = [tk EXCEPT !.pc = "bt_55"]]
          ELSE /\ tasks' = [tasks EXCEPT ![t] = Finish(tk, "")]
               /\ UNCHANGED <<user_states, presses, sincePress>>
    /\ UNCHANGED <<env, proc, queue, arrived, accepted, posts>>

\* button: await query.edit_message_text(...)
ButtonEdit(t, ok) ==
    /\ tasks[t].pc = "bt_55"
    /\ MayStep(t)
    /\ tasks' = [tasks EXCEPT ![t] = Finish(Sent(@), IF ok THEN "" ELSE "TelegramError")]
    /\ UNCHANGED <<env, proc, user_states, queue, ghosts>>

\* handle_message, waiting branch: await reply_text("starting..."), then
\* del user_states[user_id] and the call of generate_image_from_prompt
HmStarting(t, ok) ==
    /\ tasks[t].pc = "hm_62"
    /\ MayStep(t)
    /\ LET tk == Sent(tasks[t])
           u == tasks[t].user
       IN IF ~ok
          THEN /\ tasks' = [tasks EXCEPT ![t] = Finish(tk, "TelegramError")]
               /\ UNCHANGED <<user_states, accepted, sincePress>>
          ELSE IF u \notin DOMAIN user_states
          THEN /\ tasks' = [tasks EXCEPT ![t] = Finish(tk, "KeyError")]
               /\ UNCHANGED <<user_states, accepted, sincePress>>
          ELSE /\ user_states' = DelState(user_states, u)
               /\ accepted' = [accepted EXCEPT ![u] = @ + 1]
               /\ sincePress' = [sincePress EXCEPT ![u] = @ + 1]
               /\ tasks' = [tasks EXCEPT ![t] = [tk EXCEPT !.pc = "gen_post", !.accepted = TRUE]]
    /\ UNCHANGED <<env, proc, queue, arrived, presses, posts>>

\* handle_message, other branch: await reply_text("press the button first")
HmPressFirst(t, ok) ==
    /\ tasks[t].pc = "hm_75"
    /\ MayStep(t)
    /\ tasks' = [tasks EXCEPT ![t] = Finish(Sent(@), IF ok THEN "" ELSE "TelegramError")]
    /\ UNCHANGED <<env, proc, user_states, queue, ghosts>>

\* ---- generate_image_from_prompt ----
Raise(e) == [kind |-> "raise", exc |-> e, value |-> None, log |-> ""]
Return(v, l) == [kind |-> "return", exc |-> "", value |-> v, log |-> l]
Continue == [kind |-> "continue", exc |-> "", value |-> None, log |-> ""]

\* requests.post(...), response.raise_for_status(), response.json()["task_id"]
PostResult_unchecked(r) ==
    IF r.http = "conn" THEN Raise("ConnectionError")
    ELSE IF r.task_id = Missing THEN Raise("KeyError")
    ELSE Return(r.task_id, "")

PostResult(r) ==
    IF r.http = "conn" THEN Raise("ConnectionError")
    ELSE IF r.http = "error" THEN Raise("HTTPError")
    ELSE IF r.task_id = Missing THEN Raise("KeyError")
    ELSE Return(r.task_id, "")

\* the truth value Python gives a str | None
Truthy(v) == v \notin {None, ""}

\* the body of the polling loop after the get: raise_for_status, json, and
\* the branches on data["task_status"]
PollResult_last(r) ==
    IF r.http = "conn" THEN Raise("ConnectionError")
    ELSE IF r.http = "error" THEN Raise("HTTPError")
    ELSE IF r.task_status = Missing THEN Raise("KeyError")
    ELSE IF r.task_status = "SUCCEED"
         THEN IF ~r.has_images THEN Raise("KeyError")
              ELSE IF r.output_images # << >> THEN Return(r.output_images[Len(r.output_images)], "")
              ELSE Return(None, "warning_no_url")
    ELSE IF r.task_status = "FAILED" THEN Return(None, "error_failed")
    ELSE IF r.task_status = "RUNNING" \/ r.task_status = "PENDING" THEN Continue
    ELSE Return(None, "warning_unknown")

PollResult_unguarded(r) ==
    IF r.http = "conn" THEN Raise("ConnectionError")
    ELSE IF r.http = "error" THEN Raise("HTTPError")
    ELSE IF r.task_status = Missing THEN Raise("KeyError")
    ELSE IF r.task_status = "SUCCEED"
         THEN IF ~r.has_images THEN Raise("KeyError")
              ELSE IF r.output_images # << >> THEN Return(r.output_images[1], "")
              ELSE Raise("IndexError")
    ELSE IF r.task_status = "FAILED" THEN Return(None, "error_failed")
    ELSE IF r.task_status = "RUNNING" \/ r.task_status = "PENDING" THEN Continue
    ELSE Return(None, "warning_unknown")

PollResult_failed_retried(r) ==
    IF r.http = "conn" THEN Raise("ConnectionError")
    ELSE IF r.http = "error" THEN Raise("HTTPError")
    ELSE IF r.task_status = Missing THEN Raise("KeyError")
    ELSE IF r.task_status = "SUCCEED"
         THEN IF ~r.has_images THEN Raise("KeyError")
              ELSE IF r.output_images # << >> THEN Return(r.output_images[1], "")
              ELSE Return(None, "warning_no_url")
    ELSE IF r.task_status \in {"FAILED", "RUNNING", "PENDING"} THEN Continue
    ELSE Return(None, "warning_unknown")

PollResult_unknown_retried(r) ==
    IF r.http = "conn" THEN Raise("ConnectionError")
    ELSE IF r.http = "error" THEN Raise("HTTPError")
    ELSE IF r.task_status = Missing THEN Raise("KeyError")
    ELSE IF r.task_status = "SUCCEED"
         THEN IF ~r.has_images THEN Raise("KeyError")
              ELSE IF r.output_images # << >> THEN Return(r.output_images[1], "")
              ELSE Return(None, "warning_no_url")
    ELSE IF r.task_status = "FAILED" THEN Return(None, "error_failed")
    ELSE Continue

PollResult(r) ==
    IF r.http = "conn" THEN Raise("ConnectionError")
    ELSE IF r.http = "error" THEN Raise("HTTPError")
    ELSE IF r.task_status = Missing THEN Raise("KeyError")
    ELSE IF r.task_status = "SUCCEED"
         THEN IF ~r.has_images THEN Raise("KeyError")
              ELSE IF r.output_images # << >> THEN Return(r.output_images[1], "")
              ELSE Return(None, "warning_no_url")
    ELSE IF r.task_status = "FAILED" THEN Return(None, "error_failed")
    ELSE IF r.task_status = "RUNNING" \/ r.task_status = "PENDING" THEN Continue
    ELSE Return(None, "warning_unknown")

\* the call leaves generate_image_from_prompt with outcome o
Leave(tk, o) ==
    [tk EXCEPT !.pc = "gen_done", !.log = o.log,
               !.ret = [kind |-> IF o.kind = "raise" THEN "raised" ELSE "value",
                        value |-> o.value, exc |-> o.exc]]

\* the job-creation request
GenPost(t, r) ==
    /\ tasks[t].pc = "gen_post"
    /\ MayStep(t)
    /\ LET o == PostResult(r)
           tk == [tasks[t] EXCEPT !.post = r]
       IN tasks' = [tasks EXCEPT ![t] =
                      IF o.kind = "raise" THEN Leave(tk, o)
                      ELSE [tk EXCEPT !.task_id = o.value, !.pc = "gen_for"]]
    /\ posts' = [posts EXCEPT ![tasks[t].user] = @ + 1]
    /\ UNCHANGED <<env, proc, user_states, queue, arrived, presses, accepted, sincePress>>

\* range(20) has another value after i iterations
LoopContinues_inclusive(i) == i <= MaxAttempts

LoopContinues_forever(i) == TRUE

LoopContinues(i) == i < MaxAttempts

\* for _ in range(20): the next iteration, or the timeout after the last
GenFor(t) ==
    /\ tasks[t].pc = "gen_for"
    /\ MayStep(t)
    /\ tasks' = [tasks EXCEPT ![t] =
                   IF LoopContinues(@.i)
                   THEN [@ EXCEPT !.i = @ + 1, !.pc = "gen_sleep"]
                   ELSE Leave(@, Return(None, "error_timeout"))]
    /\ UNCHANGED <<env, proc, user_states, queue, ghosts>>

\* time.sleep(5)
GenSleep(t) ==
    /\ tasks[t].pc = "gen_sleep"
    /\ MayStep(t)
    /\ tasks' = [tasks EXCEPT ![t] =
                   [@ EXCEPT !.waits = @ + 1, !.clock = @ + SleepSeconds, !.pc = "gen_get"]]
    /\ UNCHANGED <<env, proc, user_states, queue, ghosts>>

NonTerminal(r) == r.http = "ok" /\ r.task_status \in {"RUNNING", "PENDING"}

\* the task the status request names: f"{base_url}v1/tasks/{task_id}"
StatusTask_first(tk) == "T1"

StatusTask(tk) == tk.task_id

\* the status request and the branches on its response
GenGet(t, r) ==
    /\ tasks[t].pc = "gen_get"
    /\ MayStep(t)
    /\ LET o == PollResult(r)
           tk == [tasks[t] EXCEPT !.polls = @ + 1, !.resp = r, !.polled = StatusTask(tasks[t]),
                                  !.nonterm = IF NonTerminal(r) THEN @ + 1 ELSE @]
       IN tasks' = [tasks EXCEPT ![t] =
                      IF o.kind = "continue" THEN [tk EXCEPT !.pc = "gen_for"]
                      ELSE Leave(tk, o)]
    /\ UNCHANGED <<env, proc, user_states, queue, ghosts>>

\* ---- handle_message after the call ----
\* the try block after the call returned or raised: if image_url / else /
\* except Exception
AfterGenerate_unchecked(ret) ==
    IF ret.kind = "raised" THEN "hm_73"
    ELSE "hm_68"

AfterGenerate(ret) ==
    IF ret.kind = "raised" THEN "hm_73"
    ELSE IF Truthy(ret.value) THEN "hm_68"
    ELSE "hm_70"

HmResult(t) ==
    /\ tasks[t].pc = "gen_done"
    /\ MayStep(t)
    /\ tasks' = [tasks EXCEPT ![t] = [@ EXCEPT !.pc = AfterGenerate(tasks[t].ret)]]
    /\ UNCHANGED <<env, proc, user_states, queue, ghosts>>

\* await reply_photo(image_url) or await reply_text(failure text), inside the
\* try: an exception of the send is caught by except Exception
HmReply(t, ok) ==
    /\ tasks[t].pc \in {"hm_68", "hm_70"}
    /\ MayStep(t)
    /\ tasks' = [tasks EXCEPT ![t] =
                   IF ok THEN Finish(Sent(@), "")
                   ELSE [Sent(@) EXCEPT !.pc = "hm_73"]]
    /\ UNCHANGED <<env, proc, user_states, queue, ghosts>>

\* except Exception: logger.error, await reply_text(error text)
HmExcept(t, ok) ==
    /\ tasks[t].pc = "hm_73"
    /\ MayStep(t)
    /\ tasks' = [tasks EXCEPT ![t] = Finish(Sent(@), IF ok THEN "" ELSE "TelegramError")]
    /\ UNCHANGED <<env, proc, user_states, queue, ghosts>>

Next ==
    \/ Startup
    \/ \E e \in Updates : Arrive(e)
    \/ Dispatch
    \/ \E t \in Slots, ok \in BOOLEAN : StartReply(t, ok)
    \/ \E t \in Slots, ok \in BOOLEAN : ButtonAnswer(t, ok)
    \/ \E t \in Slots, ok \in BOOLEAN : ButtonEdit(t, ok)
    \/ \E t \in Slots, ok \in BOOLEAN : HmStarting(t, ok)
    \/ \E t \in Slots, ok \in BOOLEAN : HmPressFirst(t, ok)
    \/ \E t \in Slots, r \in PostResponses : GenPost(t, r)
    \/ \E t \in Slots : GenFor(t)
    \/ \E t \in Slots : GenSleep(t)
    \/ \E t \in Slots, r \in PollResponses : GenGet(t, r)
    \/ \E t \in Slots : HmResult(t)
    \/ \E t \in Slots, ok \in BOOLEAN : HmReply(t, ok)
    \/ \E t \in Slots, ok \in BOOLEAN : HmExcept(t, ok)

Spec == Init /\ [][Next]_vars

TypeOK ==
    /\ proc \in {"load", "exit_1", "polling"}
    /\ DOMAIN user_states \subseteq Users
    /\ Len(queue) <= MaxQueue
    /\ \A t \in Slots : tasks[t].pc \in InactivePcs \cup AwaitPcs \cup GenPcs \cup {"gen_done"}

\* ---- properties ----
LoopPcs == {"gen_for", "gen_sleep", "gen_get"}

\* the handler calls that hold a submitted job whose result the call of
\* generate_image_from_prompt has not returned yet
Outstanding(u) == {t \in Slots : tasks[t].user = u /\ tasks[t].pc \in LoopPcs}

SucceededWith(r) ==
    r.http = "ok" /\ r.task_status = "SUCCEED" /\ r.has_images /\ r.output_images # << >>

\* C1: each trigger press lets at most one text message be accepted as a
\* prompt: a user's accepted prompts never outnumber the user's trigger
\* presses, at most one prompt is accepted since the user's last press, and
\* once one was accepted the session is not AwaitingPrompt until the next press
C1_OnePromptPerPress ==
    \A u \in Users :
        /\ accepted[u] <= presses[u]
        /\ sincePress[u] <= 1
        /\ sincePress[u] >= 1 => ~IsWaiting(user_states, u)

C1_Witness ==
    \E t \in Slots :
        /\ tasks[t].pc = "done"
        /\ tasks[t].user = "u1"
        /\ tasks[t].out = <<"press_first">>
        /\ presses["u1"] = 1
        /\ accepted["u1"] = 1
        /\ sincePress["u1"] = 1

\* C2: a text message of a user who is absent from user_states is routed to
\* the "press the button first" reply, which is the only thing its handler
\* sends; the handler sends no job-creation request and user_states stays as
\* it was from the start of the handler to its end
C2_NotAwaitingGetsPressFirst ==
    [][/\ (/\ queue # << >>
           /\ queue' = Tail(queue)
           /\ Head(queue).type = "text"
           /\ ~IsWaiting(user_states, Head(queue).user))
          => (/\ tasks'[FreeSlot].pc = "hm_75"
              /\ user_states' = user_states
              /\ posts' = posts)
       /\ \A t \in Slots :
            tasks[t].pc = "hm_75"
            => (/\ user_states' = user_states
                /\ posts' = posts
                /\ tasks'[t].pc \in {"hm_75", "done"}
                /\ tasks'[t].pc = "done" => tasks'[t].out = <<"press_first">>)]_vars

C2_Witness ==
    \E t \in Slots :
        /\ tasks[t].pc = "done"
        /\ tasks[t].out = <<"press_first">>
        /\ tasks[t].escaped = ""
        /\ ~IsWaiting(user_states, tasks[t].user)
        /\ posts[tasks[t].user] = 0

\* C3: no user ever has two outstanding generation jobs
C3_OneOutstandingJobPerUser ==
    \A u \in Users : Cardinality(Outstanding(u)) <= 1

\* a job of u1 is being polled while u1's next trigger press is waiting
C3_Witness ==
    \E t \in Outstanding("u1") :
        /\ tasks[t].polls >= 1
        /\ queue = <<[type |-> "button", user |-> "u1", data |-> GENERATE]>>

\* C4: while a job of one user is being polled, the handler of a waiting
\* update of another user can be started
C4_OtherUsersNotBlocked ==
    \A t \in Slots :
        (/\ tasks[t].pc \in LoopPcs
         /\ queue # << >>
         /\ Head(queue).user # tasks[t].user)
        => CanDispatch

\* C5: when k < 20 status responses PENDING or RUNNING were followed by
\* SUCCEED with a non-empty output_images, the call returns the first entry
\* of output_images after exactly k+1 polls and at least k waits of 5 s; and
\* the call does not give up with fewer than 20 non-terminal responses
C5_SucceedAfterKPending ==
    \A t \in Slots :
        tasks[t].pc = "gen_done"
        => /\ (SucceededWith(tasks[t].resp) /\ tasks[t].nonterm < 20)
              => /\ tasks[t].ret = [kind |-> "value", value |-> tasks[t].resp.output_images[1], exc |-> ""]
                 /\ tasks[t].polls = tasks[t].nonterm + 1
                 /\ tasks[t].waits >= tasks[t].nonterm
                 /\ tasks[t].clock >= 5 * tasks[t].nonterm
           /\ tasks[t].log = "error_timeout" => tasks[t].nonterm >= 20

C5_Witness ==
    \E t \in Slots :
        /\ tasks[t].pc = "gen_done"
        /\ tasks[t].nonterm = 19
        /\ tasks[t].polls = 20
        /\ tasks[t].resp.task_status = "SUCCEED"
        /\ tasks[t].resp.output_images = <<"http://x/img.png", "u">>
        /\ tasks[t].ret.value = "http://x/img.png"

\* C6: no call makes a 21st status poll, and after 20 non-terminal status
\* responses the call has made exactly 20 polls, has logged a timeout and
\* returns null
C6_TimeoutAfterTwentyPolls ==
    \A t \in Slots :
        /\ tasks[t].polls <= 20
        /\ (tasks[t].pc = "gen_done" /\ tasks[t].nonterm = 20)
           => /\ tasks[t].polls = 20
              /\ tasks[t].log = "error_timeout"
              /\ tasks[t].ret = [kind |-> "value", value |-> None, exc |-> ""]

C6_Witness ==
    \E t \in Slots :
        /\ tasks[t].pc = "gen_done"
        /\ tasks[t].nonterm = 20
        /\ tasks[t].log = "error_timeout"

\* C7: once a status poll answered FAILED, after n-1 non-terminal responses,
\* the call has returned null after exactly n polls and is not in the polling
\* loop any more
C7_FailedIsTerminal ==
    \A t \in Slots :
        (tasks[t].resp.http = "ok" /\ tasks[t].resp.task_status = "FAILED")
        => /\ tasks[t].pc \notin LoopPcs
           /\ tasks[t].ret = [kind |-> "value", value |-> None, exc |-> ""]
           /\ tasks[t].polls = tasks[t].nonterm + 1

C7_Witness ==
    \E t \in Slots :
        /\ tasks[t].pc = "gen_done"
        /\ tasks[t].resp.task_status = "FAILED"
        /\ tasks[t].polls = 1
        /\ tasks[t].ret.value = None

\* C8: once a status poll answered SUCCEED with an empty output_images, the
\* call has returned null (a value, no exception) and is not in the polling
\* loop any more
C8_SucceedWithoutImagesIsNull ==
    \A t \in Slots :
        (/\ tasks[t].resp.http = "ok"
         /\ tasks[t].resp.task_status = "SUCCEED"
         /\ tasks[t].resp.has_images
         /\ tasks[t].resp.output_images = << >>)
        => /\ tasks[t].pc \notin LoopPcs
           /\ tasks[t].ret = [kind |-> "value", value |-> None, exc |-> ""]

C8_Witness ==
    \E t \in Slots :
        /\ tasks[t].pc = "gen_done"
        /\ tasks[t].resp.task_status = "SUCCEED"
        /\ tasks[t].resp.has_images
        /\ tasks[t].resp.output_images = << >>
        /\ tasks[t].log = "warning_no_url"

\* C9: once a status poll answered a task_status other than SUCCEED, FAILED,
\* RUNNING and PENDING, the call has logged a warning and returned null, and
\* made no poll after that one
C9_UnknownStatusIsTerminal ==
    \A t \in Slots :
        (/\ tasks[t].resp.http = "ok"
         /\ tasks[t].resp.task_status \notin {"SUCCEED", "FAILED", "RUNNING", "PENDING", Missing})
        => /\ tasks[t].pc \notin LoopPcs
           /\ tasks[t].ret = [kind |-> "value", value |-> None, exc |-> ""]
           /\ tasks[t].log = "warning_unknown"
           /\ tasks[t].polls = tasks[t].nonterm + 1

\* an unknown status on the first poll, 19 attempts left
C9_Witness ==
    \E t \in Slots :
        /\ tasks[t].pc = "gen_done"
        /\ tasks[t].resp.task_status = "CANCELED"
        /\ tasks[t].polls = 1
        /\ tasks[t].i < MaxAttempts

\* C10: once the job-creation call answered an HTTP error status, the call
\* has raised the HTTP error and has made no status poll and no wait
C10_CreateErrorIsRaised ==
    \A t \in Slots :
        tasks[t].post.http = "error"
        => /\ tasks[t].pc \notin GenPcs
           /\ tasks[t].ret = [kind |-> "raised", value |-> None, exc |-> "HTTPError"]
           /\ tasks[t].polls = 0
           /\ tasks[t].waits = 0

C10_Witness ==
    \E t \in Slots :
        /\ tasks[t].pc = "gen_done"
        /\ tasks[t].post = [http |-> "error", task_id |-> "T1"]
        /\ tasks[t].ret.kind = "raised"

\* C11: every call of generate_image_from_prompt ends with a value (an image
\* reference or null) or with a transport-level error of one of its two HTTP
\* calls, and with nothing else
C11_OnlyThreeOutcomes ==
    \A t \in Slots :
        tasks[t].pc = "gen_done"
        => \/ tasks[t].ret.kind = "value"
           \/ tasks[t].ret.kind = "raised" /\ tasks[t].ret.exc \in {"HTTPError", "ConnectionError"}

\* the call of handle_message in slot t has ended
MessageDone(t) ==
    /\ tasks[t].pc = "done"
    /\ tasks[t].out # << >>
    /\ tasks[t].out[1] \in {"starting", "press_first"}

\* C12: no exception leaves a call of handle_message
C12_NothingEscapesHandleMessage ==
    \A t \in Slots : MessageDone(t) => tasks[t].escaped = ""

\* C13: a step changes the session of user v only if it is a step of the
\* handler of an update of v (the store of button, the del of handle_message)
C13_OtherSessionsUntouched ==
    [][\A v \in Users :
          IsWaiting(user_states', v) # IsWaiting(user_states, v)
          => \E t \in Slots :
                /\ tasks[t].user = v
                /\ tasks[t].pc \in {"bt_51", "hm_62"}
                /\ tasks'[t].pc # tasks[t].pc]_vars

\* u1's prompt has been accepted and its job has ended while u2 is AwaitingPrompt
C13_Witness ==
    \E t \in Slots :
        /\ tasks[t].user = "u1"
        /\ tasks[t].pc \in {"hm_68", "hm_70", "hm_73"}
        /\ accepted["u1"] = 1
        /\ IsWaiting(user_states, "u2")

C15_MissingConfigExits ==
    (~env.api_key \/ ~env.token)
    => /\ proc \in {"load", "exit_1"}
       /\ queue = << >>
       /\ arrived = 0
       /\ DOMAIN user_states = {}
       /\ \A t \in Slots : tasks[t].pc = "free"

C15_Witness ==
    /\ proc = "exit_1"
    /\ env = [api_key |-> TRUE, token |-> FALSE]

AfterCallPcs == {"hm_68", "hm_70", "hm_73"}

\* C17 as stated: the reply after the call is the photo exactly when the call
\* returned a non-null reference, the failure text exactly when it returned
\* null, and the error text exactly when it raised
C17_ReplyIffOutcome ==
    \A t \in Slots :
        tasks[t].pc \in AfterCallPcs
        => /\ tasks[t].pc = "hm_68" <=> (tasks[t].ret.kind = "value" /\ tasks[t].ret.value # None)
           /\ tasks[t].pc = "hm_70" <=> (tasks[t].ret.kind = "value" /\ tasks[t].ret.value = None)
           /\ tasks[t].pc = "hm_73" <=> tasks[t].ret.kind = "raised"

\* C17, amended: after the call the handler sends the photo exactly when the
\* call returned a non-empty reference and the failure text exactly when it
\* returned null or an empty string; it sends the error text when the call
\* raised, and also when the send of the photo or of the failure text raised;
\* nothing else is sent after the "starting" reply, and the photo is never
\* sent when the call returned null or raised
C17_ReplyMatchesOutcome ==
    \A t \in Slots :
        /\ tasks[t].pc \in GenPcs \cup {"gen_done"} => tasks[t].out = <<"starting">>
        /\ tasks[t].pc = "hm_68"
           => /\ tasks[t].out = <<"starting">>
              /\ tasks[t].ret.kind = "value"
              /\ tasks[t].ret.value \notin {None, ""}
        /\ tasks[t].pc = "hm_70"
           => /\ tasks[t].out = <<"starting">>
              /\ tasks[t].ret.kind = "value"
              /\ tasks[t].ret.value \in {None, ""}
        /\ tasks[t].pc = "hm_73"
           => \/ tasks[t].out = <<"starting">> /\ tasks[t].ret.kind = "raised"
              \/ /\ tasks[t].out = <<"starting", "photo">>
                 /\ tasks[t].ret.kind = "value"
                 /\ tasks[t].ret.value \notin {None, ""}
              \/ /\ tasks[t].out = <<"starting", "failure_text">>
                 /\ tasks[t].ret.kind = "value"
                 /\ tasks[t].ret.value \in {None, ""}
        /\ MessageDone(t)
           => tasks[t].out \in {<<"press_first">>, <<"starting">>,
                                <<"starting", "photo">>, <<"starting", "failure_text">>,
                                <<"starting", "error_text">>,
                                <<"starting", "photo", "error_text">>,
                                <<"starting", "failure_text", "error_text">>}

\* the photo was the one reply after the "starting" reply
C17_Witness ==
    \E t \in Slots :
        /\ tasks[t].pc = "done"
        /\ tasks[t].out = <<"starting", "photo">>
        /\ tasks[t].escaped = ""

\* a variant of the call: it falls with every step of the call
Measure(tk) ==
    CASE tk.pc = "gen_post" -> 3 * 20 + 2
      [] tk.pc = "gen_for" -> 3 * (20 - tk.i) + 1
      [] tk.pc = "gen_sleep" -> 3 * (20 - tk.i) + 3
      [] tk.pc = "gen_get" -> 3 * (20 - tk.i) + 2
      [] OTHER -> 0

\* C18: a call never makes more than 20 status polls nor more than 20 waits,
\* 100 s of waiting in all; while it runs its next step can always be taken,
\* and every step strictly lowers a variant that is never negative, so the
\* call ends whatever the service answers
C18_CallTerminates ==
    /\ [](\A t \in Slots :
             /\ tasks[t].polls <= 20
             /\ tasks[t].waits <= 20
             /\ tasks[t].clock <= 100
             /\ Measure(tasks[t]) >= 0
             /\ tasks[t].pc \in GenPcs => MayStep(t))
    /\ [][\A t \in Slots :
             (tasks[t].pc \in GenPcs /\ tasks'[t] # tasks[t])
             => Measure(tasks'[t]) < Measure(tasks[t])]_vars

C18_Witness ==
    \E t \in Slots :
        /\ tasks[t].pc = "gen_done"
        /\ tasks[t].polls = 20
        /\ tasks[t].waits = 20
        /\ tasks[t].clock = 100

\* C19: a user's job-creation requests never outnumber the user's accepted
\* prompts, each accepted prompt has had its one request as soon as the call
\* is past the request, and every status poll names the task_id that the
\* request of the same call returned
C19_OneJobPerPrompt ==
    /\ \A u \in Users :
          /\ posts[u] <= accepted[u]
          /\ accepted[u] - posts[u] =
                Cardinality({t \in Slots : tasks[t].user = u /\ tasks[t].pc = "gen_post"})
    /\ \A t \in Slots :
          tasks[t].polls > 0
          => /\ tasks[t].post.http = "ok"
             /\ tasks[t].polled \in TaskIds
             /\ tasks[t].polled = tasks[t].post.task_id

\* 20 polls of task T2 ended in the timeout, and no second request was made
C19_Witness ==
    \E t \in Slots :
        /\ tasks[t].pc = "gen_done"
        /\ tasks[t].log = "error_timeout"
        /\ tasks[t].polls = 20
        /\ tasks[t].polled = "T2"
        /\ posts[tasks[t].user] = 1
        /\ accepted[tasks[t].user] = 1

====
